---- MODULE Spec2Model ----
(***************************************************************************)
(* Byte Pair Encoding trainer of src/tokenizers/bpe.py (BytePairEncoder).  *)
(*                                                                         *)
(* Texts are sequences of code points, symbol sequences are sequences of   *)
(* integers, a pair is a 2-tuple <<a, b>>.  A Python dict is a function    *)
(* (its key order is never observed by the code, except for freq_map,      *)
(* whose insertion order fixes the order of the selected pairs and is      *)
(* kept in the field keys).  Dict objects live in a heap (dicts) because   *)
(* the default argument of __init__ is one object shared by every encoder  *)
(* constructed without a vocabulary.                                       *)
(***************************************************************************)
EXTENDS Integers, Sequences, FiniteSets, TLC

VARIABLES enc, dicts, running, pc, i, current_sequence_list,
          previous_sequence_list, freq_map, frequent_pairs, rounds, calls,
          trained, result, outcome, probe

vars == <<enc, dicts, running, pc, i, current_sequence_list,
          previous_sequence_list, freq_map, frequent_pairs, rounds, calls,
          trained, result, outcome, probe>>

----------------------------------------------------------------------------
(* Bounds of the model *)

MaxLimit == 2
MaxIterations == 2
MaxCalls == 2
MaxLen == 4

(* Program constants *)

DefaultLowerFrequencyLimit == 1
DefaultMaxIterations == 100
ByteRange == 256

Encoders == {"A", "B"}
None == "none"
DefaultObject == "default"
Objects == {DefaultObject} \cup Encoders

----------------------------------------------------------------------------
(* Small helpers over sequences and functions *)

Range(f) == {f[x] : x \in DOMAIN f}

Max2(a, b) == IF a >= b THEN a ELSE b

MaxOf(S) == CHOOSE m \in S : \A x \in S : x <= m

RECURSIVE SumLen(_)
SumLen(seqs) ==
    IF seqs = <<>> THEN 0 ELSE Len(Head(seqs)) + SumLen(Tail(seqs))

EmptyDict == <<>>
EmptyFreqMap == [keys |-> <<>>, cnt |-> EmptyDict]

----------------------------------------------------------------------------
(* regex_chunking, on the characters the model uses: letters, digits,      *)
(* white space and other characters except the apostrophe (so that the     *)
(* contraction alternatives of the pattern never apply).                   *)

IsLetter(c) == c \in (65..90) \cup (97..122) \cup ((192..255) \ {215, 247})
IsNumber(c) == c \in 48..57
IsSpace(c) == c \in {9, 10, 11, 12, 13, 32}
IsOther(c) == ~IsLetter(c) /\ ~IsNumber(c) /\ ~IsSpace(c)

InClass(c, class) ==
    \/ class = "L" /\ IsLetter(c)
    \/ class = "N" /\ IsNumber(c)
    \/ class = "O" /\ IsOther(c)
    \/ class = "S" /\ IsSpace(c)

\* end (exclusive) of the maximal run of characters of one class from p
RunEnd(text, p, class) ==
    LET stops == {q \in p..Len(text) : ~InClass(text[q], class)}
    IN  IF stops = {} THEN Max2(p, Len(text) + 1)
        ELSE CHOOSE q \in stops : \A r \in stops : q <= r

\* end of " ?<class>+" matched at p, or p when it does not match
OptSpaceRun(text, p, class) ==
    LET q == IF text[p] = 32 /\ RunEnd(text, p + 1, class) > p + 1
             THEN p + 1 ELSE p
    IN  RunEnd(text, q, class)

\* end (exclusive) of the match of the pattern that starts at p
MatchEnd(text, p) ==
    LET l == OptSpaceRun(text, p, "L")
        n == OptSpaceRun(text, p, "N")
        o == OptSpaceRun(text, p, "O")
        s == RunEnd(text, p, "S")
    IN  IF l > p THEN l
        ELSE IF n > p THEN n
        ELSE IF o > p THEN o
        ELSE IF s > Len(text) THEN s            \* \s+(?!\S) up to the end
        ELSE IF s - 1 > p THEN s - 1            \* \s+(?!\S), one given back
        ELSE s                                  \* \s+

RECURSIVE ChunksFrom(_, _)
ChunksFrom(text, p) ==
    IF p > Len(text) THEN <<>>
    ELSE LET e == MatchEnd(text, p)
         IN  <<SubSeq(text, p, e - 1)>> \o ChunksFrom(text, e)

regex_chunking(text) == ChunksFrom(text, 1)

\* chunk.encode('utf-8') for code points below 2048
Utf8Char(c) ==
    IF c < 128 THEN <<c>> ELSE <<192 + (c \div 64), 128 + (c % 64)>>

\* the bytes of the characters, in order (the chunk is split in halves)
RECURSIVE Utf8Encode(_)
Utf8Encode(chunk) ==
    IF chunk = <<>> THEN <<>>
    ELSE IF Len(chunk) = 1 THEN Utf8Char(chunk[1])
    ELSE LET mid == Len(chunk) \div 2
         IN  Utf8Encode(SubSeq(chunk, 1, mid))
                 \o Utf8Encode(SubSeq(chunk, mid + 1, Len(chunk)))

InitialSequences(text) ==
    LET chunks == regex_chunking(text)
    IN  [k \in 1..Len(chunks) |-> Utf8Encode(chunks[k])]

----------------------------------------------------------------------------
(* The loops of the code run over an index range lo..hi in increasing     *)
(* order; each is written as a fold that does lo..mid and then mid+1..hi.  *)
(* The test on the result of lo..mid has it evaluated before mid+1..hi     *)
(* begins; its other branch is never taken.                                *)

(* _count_pair_frequencies and the aggregation loop of train_bpe *)

\* freq_map[k] += v on a defaultdict(int)
AddCount(fm, k, v) ==
    IF k \in DOMAIN fm.cnt
    THEN [fm EXCEPT !.cnt[k] = @ + v]
    ELSE [keys |-> Append(fm.keys, k), cnt |-> (k :> v) @@ fm.cnt]

\* for i in range(len(sequence) - 1): freq_map[pair] += 1
RECURSIVE CountRange(_, _, _, _)
CountRange(sequence, lo, hi, fm) ==
    IF lo > hi THEN fm
    ELSE IF lo = hi
    THEN AddCount(fm, <<sequence[lo], sequence[lo + 1]>>, 1)
    ELSE LET mid == (lo + hi) \div 2
             left == CountRange(sequence, lo, mid, fm)
         IN  IF left.keys = <<>> THEN left
             ELSE CountRange(sequence, mid + 1, hi, left)

_count_pair_frequencies(sequence) ==
    CountRange(sequence, 1, Len(sequence) - 1, EmptyFreqMap)

\* for k, v in items: freq_map[k] += v
RECURSIVE MergeItems(_, _, _, _)
MergeItems(fm, items, lo, hi) ==
    IF lo > hi THEN fm
    ELSE IF lo = hi
    THEN AddCount(fm, items.keys[lo], items.cnt[items.keys[lo]])
    ELSE LET mid == (lo + hi) \div 2
             left == MergeItems(fm, items, lo, mid)
         IN  IF left.keys = <<>> THEN left
             ELSE MergeItems(left, items, mid + 1, hi)

\* for seq in current_sequence_list
RECURSIVE AggregateFrom(_, _, _)
AggregateFrom(seqs, k, fm) ==
    IF k > Len(seqs) THEN fm
    ELSE LET items == _count_pair_frequencies(seqs[k])
         IN  AggregateFrom(seqs, k + 1,
                           MergeItems(fm, items, 1, Len(items.keys)))

AggregateFrequencies(seqs) == AggregateFrom(seqs, 1, EmptyFreqMap)

----------------------------------------------------------------------------
(* _find_most_frequent_pairs *)

\* variant: every pair that reaches the limit, not only the most frequent
FindPairsAtLeastLimit(fm, lower_frequency_limit) ==
    IF fm.keys = <<>> THEN <<>>
    ELSE LET Keep(x) == fm.cnt[x] >= lower_frequency_limit
         IN  SelectSeq(fm.keys, Keep)

_find_most_frequent_pairs(fm, lower_frequency_limit) ==
    IF fm.keys = <<>> THEN <<>>
    ELSE LET target == Max2(MaxOf(Range(fm.cnt)), lower_frequency_limit)
             Keep(x) == fm.cnt[x] = target
         IN  SelectSeq(fm.keys, Keep)

----------------------------------------------------------------------------
(* _update_vocabulary *)

FirstToken(vocab) ==
    IF DOMAIN vocab = {} THEN 0 ELSE MaxOf(Range(vocab)) + 1

\* vocab[pair] = next_token
SetItem(vocab, pair, token) ==
    (pair :> token) @@ vocab

\* for pair in pairs: the k-th pair gets first_token + k - 1
RECURSIVE AssignRange(_, _, _, _, _)
AssignRange(vocab, pairs, lo, hi, first_token) ==
    IF lo > hi THEN vocab
    ELSE IF lo = hi THEN SetItem(vocab, pairs[lo], first_token + lo - 1)
    ELSE LET mid == (lo + hi) \div 2
             left == AssignRange(vocab, pairs, lo, mid, first_token)
         IN  IF DOMAIN left = {} THEN left
             ELSE AssignRange(left, pairs, mid + 1, hi, first_token)

_update_vocabulary(vocab, pairs) ==
    AssignRange(vocab, pairs, 1, Len(pairs), FirstToken(vocab))

----------------------------------------------------------------------------
(* _compress_sequence *)

\* variant: a merge advances the scan by one position only
ScanStepOverlapping(sequence, vocab, st, j) ==
    IF st.k # j THEN st
    ELSE LET pair == <<sequence[j], sequence[j + 1]>>
         IN  IF pair \in DOMAIN vocab
             THEN [k |-> j + 1,
                   compressed |-> Append(st.compressed, vocab[pair])]
             ELSE [k |-> j + 1,
                   compressed |-> Append(st.compressed, sequence[j])]

\* one turn of the while loop, taken when the scan position st.k is at j
ScanStep(sequence, vocab, st, j) ==
    IF st.k # j THEN st
    ELSE LET pair == <<sequence[j], sequence[j + 1]>>
         IN  IF pair \in DOMAIN vocab
             THEN [k |-> j + 2,
                   compressed |-> Append(st.compressed, vocab[pair])]
             ELSE [k |-> j + 1,
                   compressed |-> Append(st.compressed, sequence[j])]

\* while i < len(sequence) - 1, over the positions lo..hi
RECURSIVE ScanRange(_, _, _, _, _)
ScanRange(sequence, vocab, lo, hi, st) ==
    IF lo > hi THEN st
    ELSE IF lo = hi THEN ScanStep(sequence, vocab, st, lo)
    ELSE LET mid == (lo + hi) \div 2
             left == ScanRange(sequence, vocab, lo, mid, st)
         IN  IF left.k < lo THEN left
             ELSE ScanRange(sequence, vocab, mid + 1, hi, left)

\* variant: the pair is looked up with its two symbols swapped
CompressSwappedLookup(sequence, vocab) ==
    LET swapped == [p \in {<<q[2], q[1]>> : q \in DOMAIN vocab} |->
                       vocab[<<p[2], p[1]>>]]
        st == ScanRange(sequence, swapped, 1, Len(sequence) - 1,
                        [k |-> 1, compressed |-> <<>>])
    IN  IF st.k = Len(sequence)
        THEN Append(st.compressed, sequence[Len(sequence)])
        ELSE st.compressed

_compress_sequence(sequence, vocab) ==
    LET st == ScanRange(sequence, vocab, 1, Len(sequence) - 1,
                        [k |-> 1, compressed |-> <<>>])
    IN  IF st.k = Len(sequence)
        THEN Append(st.compressed, sequence[Len(sequence)])
        ELSE st.compressed

CompressAll(seqs, vocab) ==
    [k \in 1..Len(seqs) |-> _compress_sequence(seqs[k], vocab)]

\* get_vocabulary: a copy of the dict the encoder refers to
get_vocabulary(e) == dicts[enc[e].vocab]

----------------------------------------------------------------------------
(* Inputs of the model *)

\* __init__ takes any integers: limits and budgets from -1 upwards
Limits == (-1)..MaxLimit
Iterations == (-1)..MaxIterations

\* The limit and the budget an encoder may be constructed with: any, and
\* those of the encoder that exists already for the second one (the two
\* encoders of a behaviour are configured alike, their vocabulary argument
\* is free).
Arguments ==
    IF \A o \in Encoders : enc[o].status = "absent"
    THEN Limits \X Iterations
    ELSE { <<enc[o].lower_frequency_limit, enc[o].max_iterations>> :
             o \in {x \in Encoders : enc[x].status = "ready"} }

\* "ab", "abc", "ab ab" and three NUL characters
Texts == { <<97, 98>>, <<97, 98, 99>>, <<97, 98, 32, 97, 98>>, <<0, 0, 0>> }

\* the vocabulary argument of __init__: left out, or a dict of the caller
NoVocabulary == [given |-> FALSE, dict |-> EmptyDict]
VocabularyArgs ==
    { NoVocabulary,
      [given |-> TRUE, dict |-> [p \in {<<97, 98>>} |-> ByteRange]] }

\* A word of 258 letters in which no adjacent pair occurs twice: 256 letters
\* of "h".."x" that walk every step 1..16 modulo 17, then "b", "d".
LongWord ==
    [k \in 1..258 |->
        IF k <= 256
        THEN 104 + ((((k - 1) % 17) * (1 + ((k - 1) \div 17))) % 17)
        ELSE IF k = 257 THEN 98 ELSE 100]

WordTexts == { LongWord, <<97, 98>> }
WordIterations == { MaxIterations, DefaultMaxIterations }

Absent == [status |-> "absent", lower_frequency_limit |-> 0,
           max_iterations |-> 0, vocab |-> None, given |-> FALSE]

\* how often the running call has counted, registered and compressed
NoRounds == [counted |-> 0, registered |-> 0, compressed |-> 0]

NoProbe == [sequence |-> <<>>, vocab |-> EmptyDict, output |-> <<>>,
            called |-> FALSE]

TotalCalls == calls["A"] + calls["B"]

----------------------------------------------------------------------------
(* State machine *)

Init ==
    /\ enc = [e \in Encoders |-> Absent]
    /\ dicts = [o \in Objects |-> EmptyDict]
    /\ running = None
    /\ pc = "idle"
    /\ i = 0
    /\ current_sequence_list = <<>>
    /\ previous_sequence_list = <<>>
    /\ freq_map = EmptyFreqMap
    /\ frequent_pairs = <<>>
    /\ rounds = NoRounds
    /\ calls = [e \in Encoders |-> 0]
    /\ trained = [e \in Encoders |-> <<>>]
    /\ result = [e \in Encoders |-> EmptyDict]
    /\ outcome = [e \in Encoders |-> None]
    /\ probe = NoProbe

\* BytePairEncoder(lower_frequency_limit, max_iterations[, vocabulary])
Construct(e, lower_frequency_limit, max_iterations, vocabulary) ==
    /\ running = None
    /\ enc[e].status = "absent"
    /\ enc' = [enc EXCEPT ![e] =
                 [status |-> "ready",
                  lower_frequency_limit |-> lower_frequency_limit,
                  max_iterations |-> max_iterations,
                  vocab |-> IF vocabulary.given THEN e ELSE DefaultObject,
                  given |-> vocabulary.given]]
    /\ dicts' = IF vocabulary.given
                THEN [dicts EXCEPT ![e] = vocabulary.dict] ELSE dicts
    /\ UNCHANGED <<running, pc, i, current_sequence_list,
                   previous_sequence_list, freq_map, frequent_pairs, rounds,
                   calls, trained, result, outcome, probe>>

\* train_bpe, lines 121-127: chunk, encode, enter the loop
TrainBegin(e, train_text) ==
    /\ running = None
    /\ enc[e].status = "ready"
    /\ TotalCalls < MaxCalls
    /\ running' = e
    /\ current_sequence_list' = InitialSequences(train_text)
    /\ previous_sequence_list' = current_sequence_list'
    /\ i' = 0
    /\ pc' = IF 0 < enc[e].max_iterations THEN "count" ELSE "Exhausted"
    /\ calls' = [calls EXCEPT ![e] = @ + 1]
    /\ trained' = [trained EXCEPT ![e] = train_text]
    /\ outcome' = [outcome EXCEPT ![e] = None]
    /\ UNCHANGED <<enc, dicts, freq_map, frequent_pairs, rounds, result,
                   probe>>

\* lines 128-133
Count ==
    /\ running # None /\ pc = "count"
    /\ freq_map' = AggregateFrequencies(current_sequence_list)
    /\ pc' = "select"
    /\ rounds' = [rounds EXCEPT !.counted = @ + 1]
    /\ UNCHANGED <<enc, dicts, running, i, current_sequence_list,
                   previous_sequence_list, frequent_pairs, calls, trained,
                   result, outcome, probe>>

\* lines 136-142
Select ==
    /\ running # None /\ pc = "select"
    /\ frequent_pairs' =
           _find_most_frequent_pairs(freq_map,
                                     enc[running].lower_frequency_limit)
    /\ pc' = IF frequent_pairs' = <<>> THEN "Converged" ELSE "register"
    /\ UNCHANGED <<enc, dicts, running, i, current_sequence_list,
                   previous_sequence_list, freq_map, rounds, calls, trained,
                   result, outcome, probe>>

\* line 145
Register ==
    /\ running # None /\ pc = "register"
    /\ dicts' = [dicts EXCEPT ![enc[running].vocab] =
                    _update_vocabulary(@, frequent_pairs)]
    /\ pc' = "compress"
    /\ rounds' = [rounds EXCEPT !.registered = @ + 1]
    /\ UNCHANGED <<enc, running, i, current_sequence_list,
                   previous_sequence_list, freq_map, frequent_pairs, calls,
                   trained, result, outcome, probe>>

\* lines 149-150 and the loop test of line 127; previous_sequence_list is
\* the list that line 150 replaces by new_sequence_list
Compress ==
    /\ running # None /\ pc = "compress"
    /\ current_sequence_list' =
           CompressAll(current_sequence_list, dicts[enc[running].vocab])
    /\ previous_sequence_list' = current_sequence_list
    /\ i' = i + 1
    /\ pc' = IF i + 1 < enc[running].max_iterations
             THEN "count" ELSE "Exhausted"
    /\ rounds' = [rounds EXCEPT !.compressed = @ + 1]
    /\ UNCHANGED <<enc, dicts, running, freq_map, frequent_pairs, calls,
                   trained, result, outcome, probe>>

\* line 152 and the return: the locals are gone, the vocabulary stays
Return ==
    /\ running # None /\ pc \in {"Converged", "Exhausted"}
    /\ outcome' = [outcome EXCEPT ![running] = pc]
    /\ result' = [result EXCEPT ![running] = get_vocabulary(running)]
    /\ running' = None
    /\ pc' = "idle"
    /\ i' = 0
    /\ current_sequence_list' = <<>>
    /\ previous_sequence_list' = <<>>
    /\ freq_map' = EmptyFreqMap
    /\ frequent_pairs' = <<>>
    /\ rounds' = NoRounds
    /\ UNCHANGED <<enc, dicts, calls, trained, probe>>

Next ==
    \/ \E e \in Encoders, a \in Arguments, v \in VocabularyArgs :
          Construct(e, a[1], a[2], v)
    \/ \E e \in Encoders, t \in Texts : TrainBegin(e, t)
    \/ Count
    \/ Select
    \/ Register
    \/ Compress
    \/ Return

Spec == Init /\ [][Next]_vars

\* Encoders built with the default arguments (or a small iteration budget),
\* trained on a long word.
NextWord ==
    \/ \E e \in Encoders, m \in WordIterations :
          Construct(e, DefaultLowerFrequencyLimit, m, NoVocabulary)
    \/ \E e \in Encoders, t \in WordTexts : TrainBegin(e, t)
    \/ Count
    \/ Select
    \/ Register
    \/ Compress
    \/ Return

SpecWord == Init /\ [][NextWord]_vars

----------------------------------------------------------------------------
(* _compress_sequence called on its own, on every sequence of at most      *)
(* MaxLen symbols and every vocabulary of at most two pairs over a small   *)
(* symbol set in which identifiers and sequence symbols overlap.           *)

ProbeSymbols == {97, 98, ByteRange}
ProbeTokens == {98, ByteRange, ByteRange + 1}
ProbePairs == ProbeSymbols \X ProbeSymbols

ProbeSequences ==
    UNION { [1..n -> ProbeSymbols] : n \in 0..MaxLen }

ProbeVocabularies ==
    UNION { [K -> ProbeTokens] :
              K \in {S \in SUBSET ProbePairs : Cardinality(S) <= 2} }

InitProbe ==
    /\ enc = [e \in Encoders |-> Absent]
    /\ dicts = [o \in Objects |-> EmptyDict]
    /\ running = None
    /\ pc = "idle"
    /\ i = 0
    /\ current_sequence_list = <<>>
    /\ previous_sequence_list = <<>>
    /\ freq_map = EmptyFreqMap
    /\ frequent_pairs = <<>>
    /\ rounds = NoRounds
    /\ calls = [e \in Encoders |-> 0]
    /\ trained = [e \in Encoders |-> <<>>]
    /\ result = [e \in Encoders |-> EmptyDict]
    /\ outcome = [e \in Encoders |-> None]
    /\ probe \in [sequence : ProbeSequences, vocab : ProbeVocabularies,
                  output : {<<>>}, called : {FALSE}]

CallCompress ==
    /\ ~probe.called
    /\ probe' = [probe EXCEPT
                    !.output = _compress_sequence(probe.sequence, probe.vocab),
                    !.called = TRUE]
    /\ UNCHANGED <<enc, dicts, running, pc, i, current_sequence_list,
                   previous_sequence_list, freq_map, frequent_pairs, rounds,
                   calls, trained, result, outcome>>

NextProbe == CallCompress

SpecCompress == InitProbe /\ [][NextProbe]_vars

----------------------------------------------------------------------------
(* Properties *)

Running == running # None
Vocabulary == dicts[enc[running].vocab]
Injective(f) == \A x, y \in DOMAIN f : f[x] = f[y] => x = y
Iterating == Running /\ pc \in {"count", "select", "register", "compress"}

\* every encoder constructed so far has max_iterations > 0 and a
\* lower_frequency_limit >= 0
ValidConfiguration(e) ==
    enc[e].max_iterations > 0 /\ enc[e].lower_frequency_limit >= 0

AllValid ==
    \A e \in Encoders : enc[e].status = "ready" => ValidConfiguration(e)

\* C1: a vocabulary that started empty only ever holds distinct identifiers
\* of 256 or more, the first identifier assigned being 256 (stated for
\* encoders with a valid configuration).
C1_IdentifierSpace ==
    AllValid =>
    /\ \A p \in DOMAIN dicts[DefaultObject] :
           dicts[DefaultObject][p] >= ByteRange
    /\ Injective(dicts[DefaultObject])

\* C2: the trainer never registers a pair that is already a key of the
\* vocabulary, and no step changes the identifier of a registered pair
\* (stated for encoders with a valid configuration).
C2_IdentifierStability ==
    [][ AllValid =>
        /\ pc = "register" =>
               \A k \in DOMAIN frequent_pairs :
                   frequent_pairs[k] \notin DOMAIN Vocabulary
        /\ \A o \in Objects : \A p \in DOMAIN dicts[o] :
               p \in DOMAIN dicts'[o] /\ dicts'[o][p] = dicts[o][p] ]_vars

\* C3: no encoder exists with max_iterations <= 0 or a negative
\* lower_frequency_limit, and none such is ever iterating.
C3_InvalidConfigurationRejected ==
    /\ \A e \in Encoders : enc[e].status = "ready" => ValidConfiguration(e)
    /\ Iterating => ValidConfiguration(running)

\* C4: an encoder constructed without a vocabulary and not yet trained has
\* an empty vocabulary, whatever other encoders have done (stated for
\* encoders with a valid configuration).
C4_FreshInstanceOwnership ==
    AllValid =>
    \A e \in Encoders :
        (enc[e].status = "ready" /\ ~enc[e].given /\ calls[e] = 0)
            => get_vocabulary(e) = EmptyDict

\* C5: two encoders constructed with the same arguments and no vocabulary,
\* each trained once on the same text, end with the same vocabulary
\* (stated for encoders with a valid configuration).
C5_ConvergenceDeterminism ==
    ( /\ AllValid
      /\ \A e \in Encoders :
             /\ enc[e].status = "ready" /\ ~enc[e].given
             /\ calls[e] = 1 /\ outcome[e] # None
      /\ enc["A"].lower_frequency_limit = enc["B"].lower_frequency_limit
      /\ enc["A"].max_iterations = enc["B"].max_iterations
      /\ trained["A"] = trained["B"] )
        => result["A"] = result["B"]

\* the positions <<k, j>> at which pair p stands in the working sequences
Occurrences(p) ==
    { kj \in UNION { {k} \X (1..(Len(current_sequence_list[k]) - 1)) :
                       k \in DOMAIN current_sequence_list } :
        <<current_sequence_list[kj[1]][kj[2]],
          current_sequence_list[kj[1]][kj[2] + 1]>> = p }

PairsPresent ==
    UNION { { <<current_sequence_list[k][j], current_sequence_list[k][j + 1]>> :
                j \in 1..(Len(current_sequence_list[k]) - 1) } :
            k \in DOMAIN current_sequence_list }

\* freq_map counts every adjacent pair of every working sequence
FullyCounted ==
    /\ DOMAIN freq_map.cnt = PairsPresent
    /\ Range(freq_map.keys) = PairsPresent
    /\ \A p \in PairsPresent : freq_map.cnt[p] = Cardinality(Occurrences(p))

\* C6: once the selection is made, the selected pairs are exactly the pairs
\* whose count is the maximum of the table and at least the limit; the
\* selection is empty exactly when the table is empty or its maximum is
\* below the limit; the counts are those of the whole iteration, and what
\* is registered is the selection.
C6_MergeSelection ==
    (Running /\ pc \in {"register", "compress", "Converged"}) =>
        LET limit == enc[running].lower_frequency_limit
            K == DOMAIN freq_map.cnt
            S == Range(frequent_pairs)
        IN  /\ pc # "compress" => FullyCounted
            /\ Cardinality(S) = Len(frequent_pairs)
            /\ S \subseteq K
            /\ \A p \in K :
                   p \in S <=> /\ freq_map.cnt[p] >= limit
                               /\ \A q \in K : freq_map.cnt[q] <= freq_map.cnt[p]
            /\ S = {} <=> (K = {} \/ \A q \in K : freq_map.cnt[q] < limit)
            /\ pc = "compress" => S \subseteq DOMAIN Vocabulary

\* a selection that keeps the most frequent pair, which just reaches the
\* limit, and leaves a less frequent pair out
C6_Witness ==
    /\ Running /\ pc = "register"
    /\ Len(frequent_pairs) = 1
    /\ freq_map.cnt[frequent_pairs[1]] = enc[running].lower_frequency_limit
    /\ DOMAIN freq_map.cnt \ Range(frequent_pairs) # {}

\* C7: a call performs at most max_iterations rounds; it stops Converged at
\* the first round whose selection is empty, without registering or
\* compressing in that round, or Exhausted after exactly max_iterations
\* rounds that each registered and compressed; in a round, registration
\* follows the count over all sequences and compression follows registration.
C7_TrainerStopping ==
    Running =>
        LET max_iterations == enc[running].max_iterations
        IN  /\ rounds.counted <= max_iterations
            /\ pc = "Exhausted" =>
                   /\ i = max_iterations
                   /\ rounds = [counted |-> max_iterations,
                                registered |-> max_iterations,
                                compressed |-> max_iterations]
            /\ pc = "Converged" =>
                   /\ frequent_pairs = <<>>
                   /\ rounds = [counted |-> i + 1, registered |-> i,
                                compressed |-> i]
            /\ pc = "register" =>
                   /\ FullyCounted
                   /\ frequent_pairs # <<>>
                   /\ rounds.counted = rounds.registered + 1
            /\ pc = "compress" =>
                   /\ Range(frequent_pairs) \subseteq DOMAIN Vocabulary
                   /\ rounds.registered = rounds.compressed + 1

\* C8: every symbol of a working sequence is a byte or an identifier that
\* the vocabulary maps some pair to.
C8_SymbolProvenance ==
    Running =>
        \A k \in DOMAIN current_sequence_list :
            \A j \in DOMAIN current_sequence_list[k] :
                \/ current_sequence_list[k][j] \in 0..(ByteRange - 1)
                \/ current_sequence_list[k][j] \in Range(Vocabulary)

\* the positions at which one left-to-right non-overlapping scan merges:
\* j starts a merge exactly when its pair is a key and j - 1 starts none
MergeStarts(sequence, vocab) ==
    CHOOSE S \in SUBSET (1..(Len(sequence) - 1)) :
        \A j \in 1..(Len(sequence) - 1) :
            j \in S <=> /\ <<sequence[j], sequence[j + 1]>> \in DOMAIN vocab
                        /\ (j - 1) \notin S

\* C9: the output of _compress_sequence has one symbol for every position
\* that no merge consumed, in order: the identifier of the pair where a
\* merge starts, the input symbol elsewhere (the last one included); its
\* length is the input length less the number of merges, and sequences of
\* length 0 or 1 come back unchanged.
C9_SinglePassCompression ==
    probe.called =>
        LET sequence == probe.sequence
            vocab == probe.vocab
            S == MergeStarts(sequence, vocab)
            E == {j \in 1..Len(sequence) : (j - 1) \notin S}
            Rank(j) == Cardinality({x \in E : x <= j})
        IN  /\ Len(probe.output) = Cardinality(E)
            /\ Len(probe.output) = Len(sequence) - Cardinality(S)
            /\ Len(probe.output) <= Len(sequence)
            /\ \A j \in E :
                   probe.output[Rank(j)] =
                       IF j \in S
                       THEN vocab[<<sequence[j], sequence[j + 1]>>]
                       ELSE sequence[j]
            /\ Len(sequence) <= 1 => probe.output = sequence

\* a merge at the first position, the pair at the second position a key
\* too but skipped, and the last symbol emitted unchanged
C9_Witness ==
    /\ probe.called
    /\ Len(probe.sequence) = 3
    /\ <<probe.sequence[1], probe.sequence[2]>> \in DOMAIN probe.vocab
    /\ <<probe.sequence[2], probe.sequence[3]>> \in DOMAIN probe.vocab
    /\ probe.output = <<probe.vocab[<<probe.sequence[1], probe.sequence[2]>>],
                        probe.sequence[3]>>

\* initial symbol count of the running call, less its non-empty sequences
MergeBound ==
    LET initial == InitialSequences(trained[running])
    IN  SumLen(initial)
            - Cardinality({k \in DOMAIN initial : initial[k] # <<>>})

\* C10 as stated: a call whose max_iterations is at least the bound never
\* ends Exhausted (stated for encoders with a valid configuration).
C10_ConvergedAtBound ==
    (AllValid /\ Running /\ pc = "Exhausted") =>
        enc[running].max_iterations < MergeBound

\* C10, amended: every compression removed at least one symbol and kept
\* the number of sequences; the number of completed rounds never exceeds
\* the bound; a call whose max_iterations is greater than the bound never
\* ends Exhausted.
C10_Progress ==
    Running =>
        /\ i >= 1 =>
               /\ SumLen(current_sequence_list)
                      < SumLen(previous_sequence_list)
               /\ Len(current_sequence_list) = Len(previous_sequence_list)
        /\ i <= MergeBound
        /\ pc = "Exhausted" => enc[running].max_iterations <= MergeBound

\* a call with max_iterations above the bound that merged and then converged
C10_Witness ==
    /\ Running /\ pc = "Converged"
    /\ i >= 1
    /\ enc[running].max_iterations > MergeBound

====
